---- MODULE Spec2Model ----
(***************************************************************************)
(* AuditFlow: the five read-only tools of src/main.py, the query layer of  *)
(* src/database/queries.py and the scoped session of                       *)
(* src/database/database.py, over the two trial balance tables of          *)
(* src/database/models.py.                                                 *)
(*                                                                         *)
(* Numbers.  The columns are Python floats; the model holds them as exact  *)
(* fixed-point integers:                                                   *)
(*   debit, credit            ten-thousandths (0.01 is 100, 0.0099 is 99)  *)
(*   balance                  whole units                                  *)
(*   variance_percentage,                                                  *)
(*   threshold                hundredths of a percent (5.0 is 500,         *)
(*                            33.33 is 3333, 100.0 is 10000)               *)
(* No statement of the code combines a debit or a credit with a balance,   *)
(* and the percentage is a ratio of balances, so the two units never meet. *)
(* Binary rounding error of float arithmetic is outside the model.         *)
(***************************************************************************)
EXTENDS Integers, Sequences, FiniteSets, TLC

VARIABLES store, calls, sessions

vars == <<store, calls, sessions>>

(* Bounds of the model. *)
MaxRows == 3
MaxCalls == 2

Calls == 1..MaxCalls

(***************************************************************************)
(* The tables: models.py.  A row has the primary key id and the five       *)
(* columns; store[t] is the set of rows of table t.                        *)
(***************************************************************************)
TrailBalanceCurrentYear == "trial_balance_current_year"
TrailBalancePreviousYear == "trial_balance_previous_year"

Tables == {TrailBalanceCurrentYear, TrailBalancePreviousYear}

Row(id, gl, name, d, c, b) ==
    [id |-> id, gl_account |-> gl, account_name |-> name,
     debit |-> d, credit |-> c, balance |-> b]

MkStore(cur, prev) ==
    [t \in Tables |-> IF t = TrailBalanceCurrentYear THEN cur ELSE prev]

(***************************************************************************)
(* Python and SQL helpers.                                                 *)
(***************************************************************************)
Abs(x) == IF x < 0 THEN -x ELSE x

(* round(num / den) to the nearest integer, ties to even, as Python's      *)
(* round() does; num >= 0, den > 0.                                        *)
RoundTruncating(num, den) == num \div den

RoundHalfEven(num, den) ==
    LET q == num \div den
        r == num % den
    IN  IF 2 * r > den \/ (2 * r = den /\ q % 2 = 1) THEN q + 1 ELSE q

RECURSIVE SumOf(_, _)
SumOf(rows, column) ==
    IF rows = {} THEN 0
    ELSE LET r == CHOOSE x \in rows : TRUE
         IN  r[column] + SumOf(rows \ {r}, column)

(* SELECT sum(column): one row holding the sum, NULL (None, here <<>>)     *)
(* over an empty table.                                                    *)
sql_sum(rows, column) == IF rows = {} THEN <<>> ELSE <<SumOf(rows, column)>>

(* The orders in which a SELECT without ORDER BY may return the set S.     *)
RECURSIVE ResultOrders(_)
ResultOrders(S) ==
    IF S = {} THEN {<<>>}
    ELSE UNION {{<<x>> \o rest : rest \in ResultOrders(S \ {x})} : x \in S}

(* {key: value for key, value in rows}: the last row of a key wins. *)
RECURSIVE dict_of(_)
dict_of(rows) ==
    IF rows = <<>> THEN <<>>
    ELSE LET n == Len(rows)
             last == rows[n]
             before == dict_of(SubSeq(rows, 1, n - 1))
         IN  [k \in DOMAIN before \cup {last[1]} |->
                 IF k = last[1] THEN last[2] ELSE before[k]]

dict_get(d, key, default) == IF key \in DOMAIN d THEN d[key] ELSE default

(* What a function call ends in: a returned value or a raised exception,   *)
(* with the statements it executed on the way.                             *)
Return(value, stmts) == [raised |-> FALSE, value |-> value, stmts |-> stmts]
Raise(exception, stmts) == [raised |-> TRUE, value |-> exception, stmts |-> stmts]

(***************************************************************************)
(* The statements the query layer builds, and the data store's answer.     *)
(***************************************************************************)
select_sum(model, column) ==
    [verb |-> "select", from |-> model, columns |-> <<column>>, agg |-> "sum"]

delete_from(model, columns) ==
    [verb |-> "delete", from |-> model, columns |-> columns, agg |-> "distinct"]

select_distinct(model, columns) ==
    [verb |-> "select", from |-> model, columns |-> columns, agg |-> "distinct"]

project(r, columns) == [i \in 1..Len(columns) |-> r[columns[i]]]

(* scalar_one_or_none() of a sum statement. *)
scalar_one_or_none(st, stmt) == sql_sum(st[stmt.from], stmt.columns[1])

(* The set of result rows of a distinct statement; their order is the      *)
(* store's choice.                                                         *)
distinct_rows(st, stmt) == {project(r, stmt.columns) : r \in st[stmt.from]}

(* The rows of the store once the session has executed stmt: a select      *)
(* reads, a delete empties its table.                                      *)
execute(st, stmt) ==
    IF stmt.verb = "select" THEN st ELSE [st EXCEPT ![stmt.from] = {}]

RECURSIVE execute_all(_, _)
execute_all(st, stmts) ==
    IF stmts = <<>> THEN st
    ELSE execute_all(execute(st, Head(stmts)), Tail(stmts))

(***************************************************************************)
(* queries.py                                                              *)
(***************************************************************************)
get_model_by_name(table_name) ==
    IF table_name = "current_year" THEN Return(TrailBalanceCurrentYear, <<>>)
    ELSE IF table_name = "previous_year" THEN Return(TrailBalancePreviousYear, <<>>)
    ELSE Raise(<<"ValueError", "Unknown table", table_name>>, <<>>)

get_total(st, table_name, column) ==
    IF column \notin {"debit", "credit", "balance"}
    THEN Raise(<<"ValueError", "Invalid column", column>>, <<>>)
    ELSE LET model_class == get_model_by_name(table_name)
         IN  IF model_class.raised THEN model_class
             ELSE LET stmt == select_sum(model_class.value, column)
                      total == scalar_one_or_none(st, stmt)
                  IN  Return(IF total /= <<>> THEN total[1] ELSE 0, <<stmt>>)

(* get_account_names and get_gl_accounts differ in the column only; rows   *)
(* is the order in which the store returned the result.                    *)
account_names_stmt(model) == select_distinct(model, <<"account_name">>)
gl_accounts_stmt(model) == select_distinct(model, <<"gl_account">>)

first_column(rows) == [i \in 1..Len(rows) |-> rows[i][1]]

(* check_total_match, after its two statements have been executed. *)
or_default(x, default) == IF x = <<>> \/ x[1] = 0 THEN default ELSE x[1]

is_balanced_inclusive(debit_total, credit_total) ==
    Abs(debit_total - credit_total) <= 100

is_balanced(debit_total, credit_total) ==
    Abs(debit_total - credit_total) < 100

check_total_match(debit_result, credit_result) ==
    LET debit_total == or_default(debit_result, 0)
        credit_total == or_default(credit_result, 0)
    IN  [debit_total |-> debit_total,
         credit_total |-> credit_total,
         is_balanced |-> is_balanced(debit_total, credit_total)]

(* get_variance_analysis, lines 159-163. *)
variance_percentage_truncating(current_balance, previous_balance) ==
    IF previous_balance /= 0
    THEN RoundTruncating(Abs(current_balance - previous_balance) * 10000,
                         Abs(previous_balance))
    ELSE IF current_balance /= 0 THEN 10000 ELSE 0

variance_percentage(current_balance, previous_balance) ==
    IF previous_balance /= 0
    THEN RoundHalfEven(Abs(current_balance - previous_balance) * 10000,
                       Abs(previous_balance))
    ELSE IF current_balance /= 0 THEN 10000 ELSE 0

(* Line 172. *)
exceeds_threshold_strict(pct, threshold) == pct > threshold

exceeds_threshold(pct, threshold) == pct >= threshold

(* The body of the loop over all_account_names, lines 155-173, for the     *)
(* names in the order the set yields them.                                 *)
RECURSIVE variance_loop(_, _, _, _)
variance_loop(names, current_accounts, previous_accounts, threshold) ==
    IF names = <<>> THEN <<>>
    ELSE LET account_name == Head(names)
             current_balance == dict_get(current_accounts, account_name, 0)
             previous_balance == dict_get(previous_accounts, account_name, 0)
             pct == variance_percentage(current_balance, previous_balance)
             rest == variance_loop(Tail(names), current_accounts,
                                   previous_accounts, threshold)
         IN  IF pct /= 0
             THEN <<[account_name |-> account_name,
                     current_balance |-> current_balance,
                     previous_balance |-> previous_balance,
                     variance_amount |-> current_balance - previous_balance,
                     variance_percentage |-> pct,
                     exceeds_threshold |->
                         exceeds_threshold(pct, threshold)]>> \o rest
             ELSE rest

exceeds(v) == v.exceeds_threshold

all_account_names_both(current_accounts, previous_accounts) ==
    DOMAIN current_accounts \cap DOMAIN previous_accounts

all_account_names(current_accounts, previous_accounts) ==
    DOMAIN current_accounts \cup DOMAIN previous_accounts

(* get_variance_analysis once both results are fetched; names is           *)
(* all_account_names in the iteration order of the set.                    *)
get_variance_analysis_counting_results(current_accounts, previous_accounts, names, threshold) ==
    LET variance_results == variance_loop(names, current_accounts,
                                          previous_accounts, threshold)
        significant_variances == SelectSeq(variance_results, exceeds)
    IN  [total_accounts |-> Len(variance_results),
         variance_count |-> Len(significant_variances),
         threshold_used |-> threshold,
         variances_exceeding_threshold |-> significant_variances]

get_variance_analysis(current_accounts, previous_accounts, names, threshold) ==
    LET variance_results == variance_loop(names, current_accounts,
                                          previous_accounts, threshold)
        significant_variances == SelectSeq(variance_results, exceeds)
    IN  [total_accounts |->
             Cardinality(all_account_names(current_accounts, previous_accounts)),
         variance_count |-> Len(significant_variances),
         threshold_used |-> threshold,
         variances_exceeding_threshold |-> significant_variances]

(***************************************************************************)
(* schema.py: the response models.  A field constraint that fails raises   *)
(* pydantic's ValidationError.                                             *)
(***************************************************************************)
TotalResponse(table_name, column, total) ==
    IF table_name \notin {"current_year", "previous_year"}
    THEN Raise(<<"ValidationError", "table_name", table_name>>, <<>>)
    ELSE IF column \notin {"debit", "credit", "balance"}
    THEN Raise(<<"ValidationError", "column", column>>, <<>>)
    ELSE IF ~(total >= 0)
    THEN Raise(<<"ValidationError", "total", total>>, <<>>)
    ELSE Return([table_name |-> table_name, column |-> column, total |-> total],
                <<>>)

AccountNamesResponse(account_names, table_name) ==
    IF table_name \notin {"current_year", "previous_year"}
    THEN Raise(<<"ValidationError", "table_name", table_name>>, <<>>)
    ELSE Return([account_names |-> account_names, table_name |-> table_name],
                <<>>)

GlAccountsResponse(gl_accounts, table_name) ==
    IF table_name \notin {"current_year", "previous_year"}
    THEN Raise(<<"ValidationError", "table_name", table_name>>, <<>>)
    ELSE Return([gl_accounts |-> gl_accounts, table_name |-> table_name], <<>>)

TotalMatchResponse(debit_total, credit_total, balanced, table_name) ==
    IF table_name \notin {"current_year", "previous_year"}
    THEN Raise(<<"ValidationError", "table_name", table_name>>, <<>>)
    ELSE Return([debit_total |-> debit_total, credit_total |-> credit_total,
                 is_balanced |-> balanced, table_name |-> table_name], <<>>)

VarianceAnalysisResponse(result) ==
    Return([total_accounts |-> result.total_accounts,
            variance_count |-> result.variance_count,
            threshold_used |-> result.threshold_used,
            variances_exceeding_threshold |->
                result.variances_exceeding_threshold], <<>>)

(***************************************************************************)
(* database.py: the scoped session.  sessions holds every session the      *)
(* session maker has created, in the order of creation, "open" or          *)
(* "closed"; a session's id is its place.                                  *)
(***************************************************************************)
async_sessionmaker_obj(ss) ==
    [sid |-> Len(ss) + 1, sessions |-> Append(ss, "open")]

(* Leaving get_db_session: the finally clause closes the session, whether  *)
(* the body returned or raised.                                            *)
close_unless_raised(ss, sid, raised) ==
    IF raised THEN ss ELSE [ss EXCEPT ![sid] = "closed"]

get_db_session_exit(ss, sid, raised) == [ss EXCEPT ![sid] = "closed"]

(***************************************************************************)
(* main.py: the tools.  calls[c] is invocation c: where it stands (pc),    *)
(* its arguments (req), its session (sid), how many sessions it has        *)
(* acquired and how many statements it has executed, the local variables   *)
(* of its frame, and how it ended (outcome).                               *)
(***************************************************************************)
Req(tool, table_name, column, threshold) ==
    [tool |-> tool, table_name |-> table_name, column |-> column,
     threshold |-> threshold]

NoReq == Req("", "", "", 0)
NoOutcome == [status |-> "none", value |-> <<>>]
Ok(value) == [status |-> "ok", value |-> value]
Error(exception) == [status |-> "error", value |-> exception]
OutcomeOf(r) == IF r.raised THEN Error(r.value) ELSE Ok(r.value)

Idle ==
    [pc |-> "idle", req |-> NoReq, sid |-> 0, acquired |-> 0, queries |-> 0,
     local |-> <<>>, outcome |-> NoOutcome]

(* The invocation's step to its end: the async with block is left (the     *)
(* session closed) and the tool returns or raises.                         *)
Leave(c, outcome, raised_in_block, stmts, local) ==
    /\ calls' = [calls EXCEPT ![c].pc = "done",
                              ![c].queries = @ + Len(stmts),
                              ![c].local = local,
                              ![c].outcome = outcome]
    /\ sessions' = get_db_session_exit(sessions, calls[c].sid, raised_in_block)
    /\ store' = execute_all(store, stmts)

(* A step inside the block: stmts were executed, the frame moves on. *)
Continue(c, pc, stmts, local) ==
    /\ calls' = [calls EXCEPT ![c].pc = pc,
                              ![c].queries = @ + Len(stmts),
                              ![c].local = local]
    /\ store' = execute_all(store, stmts)
    /\ UNCHANGED sessions

At(c, tool, pc) == calls[c].pc = pc /\ calls[c].req.tool = tool

(* async with get_db_session() as db: the first statement of every tool. *)
Enter(c, req) ==
    /\ calls[c].pc = "idle"
    /\ LET made == async_sessionmaker_obj(sessions)
       IN  /\ sessions' = made.sessions
           /\ calls' = [calls EXCEPT ![c].pc = "session",
                                     ![c].req = req,
                                     ![c].sid = made.sid,
                                     ![c].acquired = @ + 1]
    /\ UNCHANGED store

(* totalTool, line 23: total_value = await get_total(db, table_name, column) *)
totalTool_get_total(c) ==
    /\ At(c, "totalTool", "session")
    /\ LET r == get_total(store, calls[c].req.table_name, calls[c].req.column)
       IN  IF r.raised
           THEN Leave(c, Error(r.value), TRUE, r.stmts, <<>>)
           ELSE Continue(c, "fetched", r.stmts, [total_value |-> r.value])

(* totalTool, lines 25-29: the block is left, then the response is built. *)
totalTool_return(c) ==
    /\ At(c, "totalTool", "fetched")
    /\ Leave(c, OutcomeOf(TotalResponse(calls[c].req.table_name,
                                        calls[c].req.column,
                                        calls[c].local.total_value)),
             FALSE, <<>>, calls[c].local)

(* accountNameTool, line 43: account_names = await get_account_names(...) *)
accountNameTool_get_account_names(c) ==
    /\ At(c, "accountNameTool", "session")
    /\ LET model_class == get_model_by_name(calls[c].req.table_name)
       IN  IF model_class.raised
           THEN Leave(c, Error(model_class.value), TRUE, <<>>, <<>>)
           ELSE LET stmt == account_names_stmt(model_class.value)
                IN  \E results \in ResultOrders(distinct_rows(store, stmt)) :
                        Continue(c, "fetched", <<stmt>>,
                                 [account_names |-> first_column(results)])

(* accountNameTool, line 44: the response is built inside the block. *)
accountNameTool_return(c) ==
    /\ At(c, "accountNameTool", "fetched")
    /\ LET resp == AccountNamesResponse(calls[c].local.account_names,
                                        calls[c].req.table_name)
       IN  Leave(c, OutcomeOf(resp), resp.raised, <<>>, calls[c].local)

(* glAccountTool, line 57: gl_accounts = await get_gl_accounts(...) *)
glAccountTool_get_gl_accounts(c) ==
    /\ At(c, "glAccountTool", "session")
    /\ LET model_class == get_model_by_name(calls[c].req.table_name)
       IN  IF model_class.raised
           THEN Leave(c, Error(model_class.value), TRUE, <<>>, <<>>)
           ELSE LET stmt == gl_accounts_stmt(model_class.value)
                IN  \E results \in ResultOrders(distinct_rows(store, stmt)) :
                        Continue(c, "fetched", <<stmt>>,
                                 [gl_accounts |-> first_column(results)])

(* glAccountTool, line 58. *)
glAccountTool_return(c) ==
    /\ At(c, "glAccountTool", "fetched")
    /\ LET resp == GlAccountsResponse(calls[c].local.gl_accounts,
                                      calls[c].req.table_name)
       IN  Leave(c, OutcomeOf(resp), resp.raised, <<>>, calls[c].local)

(* totalMatchTool, line 71, check_total_match up to its first await:       *)
(* debit_result = await db.execute(debit_stmt)                             *)
check_total_match_debit(c) ==
    /\ At(c, "totalMatchTool", "session")
    /\ LET model_class == get_model_by_name(calls[c].req.table_name)
       IN  IF model_class.raised
           THEN Leave(c, Error(model_class.value), TRUE, <<>>, <<>>)
           ELSE LET debit_stmt == select_sum(model_class.value, "debit")
                IN  Continue(c, "fetched1", <<debit_stmt>>,
                             [model_class |-> model_class.value,
                              debit_result |->
                                  scalar_one_or_none(store, debit_stmt)])

(* credit_result = await db.execute(credit_stmt) *)
check_total_match_credit(c) ==
    /\ At(c, "totalMatchTool", "fetched1")
    /\ LET credit_stmt == select_sum(calls[c].local.model_class, "credit")
       IN  Continue(c, "fetched", <<credit_stmt>>,
                    [debit_result |-> calls[c].local.debit_result,
                     credit_result |-> scalar_one_or_none(store, credit_stmt)])

(* check_total_match lines 113-123 and totalMatchTool lines 72-77. *)
totalMatchTool_return(c) ==
    /\ At(c, "totalMatchTool", "fetched")
    /\ LET result == check_total_match(calls[c].local.debit_result,
                                       calls[c].local.credit_result)
           resp == TotalMatchResponse(result.debit_total, result.credit_total,
                                      result.is_balanced,
                                      calls[c].req.table_name)
       IN  Leave(c, OutcomeOf(resp), resp.raised, <<>>, calls[c].local)

(* varianceAnalysisTool, line 90, get_variance_analysis up to its first    *)
(* await: current_result = await db.execute(current_stmt).  The result     *)
(* holds the rows in the order the store returned them; line 148 builds    *)
(* the dict from them.                                                     *)
get_variance_analysis_current(c) ==
    /\ At(c, "varianceAnalysisTool", "session")
    /\ LET current_stmt == select_distinct(TrailBalanceCurrentYear,
                                           <<"account_name", "balance">>)
       IN  \E current_result \in ResultOrders(distinct_rows(store, current_stmt)) :
               Continue(c, "fetched1", <<current_stmt>>,
                        [current_accounts |-> dict_of(current_result)])

(* previous_result = await db.execute(previous_stmt), and line 149. *)
get_variance_analysis_previous(c) ==
    /\ At(c, "varianceAnalysisTool", "fetched1")
    /\ LET previous_stmt == select_distinct(TrailBalancePreviousYear,
                                            <<"account_name", "balance">>)
       IN  \E previous_result \in ResultOrders(distinct_rows(store, previous_stmt)) :
               Continue(c, "fetched", <<previous_stmt>>,
                        [current_accounts |-> calls[c].local.current_accounts,
                         previous_accounts |-> dict_of(previous_result)])

(* get_variance_analysis lines 151-183 and varianceAnalysisTool lines      *)
(* 91-96.                                                                  *)
varianceAnalysisTool_return(c) ==
    /\ At(c, "varianceAnalysisTool", "fetched")
    /\ LET current_accounts == calls[c].local.current_accounts
           previous_accounts == calls[c].local.previous_accounts
       IN  \E names \in ResultOrders(all_account_names(current_accounts,
                                                       previous_accounts)) :
               LET result == get_variance_analysis(current_accounts,
                                                   previous_accounts, names,
                                                   calls[c].req.threshold)
                   resp == VarianceAnalysisResponse(result)
               IN  Leave(c, OutcomeOf(resp), resp.raised, <<>>,
                         [current_accounts |-> current_accounts,
                          previous_accounts |-> previous_accounts,
                          variance_results |->
                              variance_loop(names, current_accounts,
                                            previous_accounts,
                                            calls[c].req.threshold)])

(* Whether invocation c stands before an await db.execute(...): it holds   *)
(* its session and its arguments have passed the checks that come first.   *)
BeforeExecute(c) ==
    \/ calls[c].pc = "fetched1"
    \/ /\ calls[c].pc = "session"
       /\ CASE calls[c].req.tool = "totalTool" ->
                 ~get_total(store, calls[c].req.table_name,
                            calls[c].req.column).raised
            [] calls[c].req.tool = "varianceAnalysisTool" -> TRUE
            [] OTHER -> ~get_model_by_name(calls[c].req.table_name).raised

(* await db.execute(stmt) raises: the data store is unreachable or the     *)
(* statement fails.  The exception leaves the block and the tool.          *)
execute_raises(c) ==
    /\ BeforeExecute(c)
    /\ Leave(c, Error(<<"DBAPIError", "execute", calls[c].req.tool>>), TRUE,
             <<>>, <<>>)

(***************************************************************************)
(* The requests and the stores the specifications draw from.               *)
(***************************************************************************)
Requests(tools, table_names, columns, thresholds) ==
    {Req("totalTool", t, col, 0) :
        t \in IF "totalTool" \in tools THEN table_names ELSE {},
        col \in columns}
    \cup {Req(tool, t, "", 0) :
        tool \in tools \cap {"accountNameTool", "glAccountTool", "totalMatchTool"},
        t \in table_names}
    \cup {Req("varianceAnalysisTool", "", "", th) :
        th \in IF "varianceAnalysisTool" \in tools THEN thresholds ELSE {}}

Bounded(pool) == {rows \in SUBSET pool : Cardinality(rows) <= MaxRows}

Stores(current_pool, previous_pool) ==
    {MkStore(cur, prev) : cur \in Bounded(current_pool),
                          prev \in Bounded(previous_pool)}

InitWith(stores) ==
    /\ store \in stores
    /\ calls = [c \in Calls |-> Idle]
    /\ sessions = <<>>

(***************************************************************************)
(* Spec: concurrent invocations of the five tools, with valid and invalid  *)
(* arguments, over a small store.                                          *)
(***************************************************************************)
Tools == {"totalTool", "accountNameTool", "glAccountTool", "totalMatchTool",
          "varianceAnalysisTool"}

SessionStores ==
    {MkStore({}, {}),
     MkStore({Row(1, "1000", "A", 5000, 0, 100),
              Row(2, "2000", "B", 0, 5000, -200)},
             {Row(1, "1000", "A", 4000, 0, 80)})}

SessionRequests ==
    Requests(Tools, {"current_year", "next_year"}, {"balance", "foo"}, {500})

Init == InitWith(SessionStores)

Next ==
    \E c \in Calls :
        \/ \E req \in SessionRequests : Enter(c, req)
        \/ totalTool_get_total(c)
        \/ totalTool_return(c)
        \/ accountNameTool_get_account_names(c)
        \/ accountNameTool_return(c)
        \/ glAccountTool_get_gl_accounts(c)
        \/ glAccountTool_return(c)
        \/ check_total_match_debit(c)
        \/ check_total_match_credit(c)
        \/ totalMatchTool_return(c)
        \/ get_variance_analysis_current(c)
        \/ get_variance_analysis_previous(c)
        \/ varianceAnalysisTool_return(c)
        \/ execute_raises(c)

Spec == Init /\ [][Next]_vars

(***************************************************************************)
(* SpecVariance: one invocation of varianceAnalysisTool at a time, over    *)
(* every pair of balance snapshots drawn from the two pools.               *)
(***************************************************************************)
CurrentBalanceRows ==
    {Row(1, "1000", "A", 0, 0, 100),
     Row(2, "1001", "A", 0, 0, 110),
     Row(3, "2000", "B", 0, 0, 200),
     Row(4, "2001", "B", 0, 0, -70),
     Row(5, "3000", "C", 0, 0, 30001),
     Row(6, "3001", "C", 0, 0, 0)}

PreviousBalanceRows ==
    {Row(1, "1000", "A", 0, 0, 100),
     Row(2, "1001", "A", 0, 0, 110),
     Row(3, "2000", "B", 0, 0, 150),
     Row(4, "2001", "B", 0, 0, 0),
     Row(5, "3000", "C", 0, 0, 80),
     Row(6, "3001", "C", 0, 0, 30000)}

Thresholds == {-100, 0, 500, 10000}

VarianceRequests == Requests({"varianceAnalysisTool"}, {}, {}, Thresholds)

InitVariance == InitWith(Stores(CurrentBalanceRows, PreviousBalanceRows))

NextVariance ==
    \/ \E req \in VarianceRequests : Enter(1, req)
    \/ get_variance_analysis_current(1)
    \/ get_variance_analysis_previous(1)
    \/ varianceAnalysisTool_return(1)
    \/ execute_raises(1)

SpecVariance == InitVariance /\ [][NextVariance]_vars

(***************************************************************************)
(* SpecTotals: one invocation of totalTool or totalMatchTool at a time,    *)
(* with valid arguments, over every pair of tables drawn from the ledger   *)
(* pool.                                                                   *)
(***************************************************************************)
LedgerRows ==
    {Row(1, "1000", "Cash", 5000, 0, 50),
     Row(2, "2000", "Loan", 0, 5000, -50),
     Row(3, "2001", "Payables", 0, 4900, -80),
     Row(4, "2002", "Accruals", 0, 4901, 30),
     Row(5, "1001", "Bank", 4901, 5000, 0),
     Row(6, "1002", "Stock", 4900, 5000, 20)}

TotalsRequests ==
    Requests({"totalTool", "totalMatchTool"}, {"current_year", "previous_year"},
             {"debit", "credit", "balance"}, {})

InitTotals == InitWith(Stores(LedgerRows, LedgerRows))

NextTotals ==
    \/ \E req \in TotalsRequests : Enter(1, req)
    \/ totalTool_get_total(1)
    \/ totalTool_return(1)
    \/ check_total_match_debit(1)
    \/ check_total_match_credit(1)
    \/ totalMatchTool_return(1)
    \/ execute_raises(1)

SpecTotals == InitTotals /\ [][NextTotals]_vars

(***************************************************************************)
(* What the properties below read of an invocation.                        *)
(***************************************************************************)
Done(c, tool) == calls[c].pc = "done" /\ calls[c].req.tool = tool

Returned(c, tool) == Done(c, tool) /\ calls[c].outcome.status = "ok"

StoreFailed(c) ==
    /\ calls[c].outcome.status = "error"
    /\ calls[c].outcome.value[1] = "DBAPIError"

PeriodTable(table_name) ==
    IF table_name = "current_year" THEN TrailBalanceCurrentYear
    ELSE TrailBalancePreviousYear

BalanceIn(accounts, name) ==
    IF name \in DOMAIN accounts THEN accounts[name] ELSE 0

NamesIn(rows) == {r.account_name : r \in rows}

StoreNames ==
    NamesIn(store[TrailBalanceCurrentYear])
        \cup NamesIn(store[TrailBalancePreviousYear])

RecordsOf(records, name) ==
    {i \in DOMAIN records : records[i].account_name = name}

(* C1: a name of the union has a record in variances_exceeding_threshold   *)
(* if and only if its variance_percentage is not 0 and is at least the     *)
(* threshold, whatever the threshold (0 and negative ones too); every      *)
(* returned record has exceeds_threshold = true and a percentage other     *)
(* than 0.                                                                 *)
C1_ReturnedIffExceeds ==
    \A c \in Calls :
        Returned(c, "varianceAnalysisTool") =>
            LET cur == calls[c].local.current_accounts
                prev == calls[c].local.previous_accounts
                returned == calls[c].outcome.value.variances_exceeding_threshold
            IN  /\ \A n \in StoreNames :
                       LET pct == variance_percentage(BalanceIn(cur, n),
                                                      BalanceIn(prev, n))
                       IN  /\ (RecordsOf(returned, n) /= {})
                                  <=> (pct /= 0 /\ pct >= calls[c].req.threshold)
                           /\ \A i \in RecordsOf(returned, n) :
                                  returned[i].variance_percentage = pct
                /\ \A i \in DOMAIN returned :
                       /\ returned[i].exceeds_threshold
                       /\ returned[i].variance_percentage /= 0
                       /\ returned[i].account_name \in StoreNames

(* A negative threshold, a returned record, and an unchanged account that  *)
(* is left out although its percentage, 0, is above the threshold.         *)
C1_Witness ==
    \E c \in Calls :
        /\ Returned(c, "varianceAnalysisTool")
        /\ calls[c].req.threshold < 0
        /\ calls[c].outcome.value.variances_exceeding_threshold /= <<>>
        /\ \E n \in StoreNames :
               /\ BalanceIn(calls[c].local.current_accounts, n)
                      = BalanceIn(calls[c].local.previous_accounts, n)
               /\ RecordsOf(calls[c].outcome.value.variances_exceeding_threshold,
                            n) = {}

(* C2: the percentage of an account is abs((current - previous) /          *)
(* previous) * 100 rounded to 2 places (the nearest hundredth) when        *)
(* previous is not 0, 100.0 when previous is 0 and current is not, 0.0     *)
(* when both are 0; (110, 100) gives 10.00 and (100, 110) gives 9.09; the  *)
(* computation never ends in a division by zero.                           *)
C2_Percentage ==
    \A c \in Calls :
        /\ Done(c, "varianceAnalysisTool") =>
               Returned(c, "varianceAnalysisTool") \/ StoreFailed(c)
        /\ Returned(c, "varianceAnalysisTool") =>
            LET cur == calls[c].local.current_accounts
                prev == calls[c].local.previous_accounts
                results == calls[c].local.variance_results
            IN  \A n \in StoreNames :
                    LET current == BalanceIn(cur, n)
                        previous == BalanceIn(prev, n)
                        recs == RecordsOf(results, n)
                    IN  /\ Cardinality(recs) <= 1
                        /\ \A pct \in IF recs = {} THEN {0}
                                      ELSE {results[i].variance_percentage :
                                                i \in recs} :
                               /\ pct >= 0
                               /\ previous /= 0 =>
                                      2 * Abs(pct * Abs(previous)
                                              - 10000 * Abs(current - previous))
                                          <= Abs(previous)
                               /\ (previous = 0 /\ current /= 0) => pct = 10000
                               /\ (previous = 0 /\ current = 0) => pct = 0
                               /\ (current = 110 /\ previous = 100) => pct = 1000
                               /\ (current = 100 /\ previous = 110) => pct = 909

C2_Witness ==
    \E c \in Calls :
        /\ Returned(c, "varianceAnalysisTool")
        /\ LET results == calls[c].local.variance_results
           IN  /\ \E i \in DOMAIN results :
                      /\ results[i].current_balance = 100
                      /\ results[i].previous_balance = 110
                      /\ results[i].variance_percentage = 909
               /\ \E i \in DOMAIN results :
                      /\ results[i].previous_balance = 0
                      /\ results[i].current_balance /= 0
                      /\ results[i].variance_percentage = 10000
               /\ \E n \in StoreNames :
                      /\ BalanceIn(calls[c].local.current_accounts, n) = 0
                      /\ BalanceIn(calls[c].local.previous_accounts, n) = 0
                      /\ RecordsOf(results, n) = {}

(* C3: is_balanced is true if and only if the debit total and the credit   *)
(* total of the table differ by strictly less than 0.01: false at exactly  *)
(* 0.01, true at 0.0099, true (with both totals 0.0) for an empty table.   *)
C3_BalancedIffWithinTolerance ==
    \A c \in Calls :
        Returned(c, "totalMatchTool") =>
            LET rows == store[PeriodTable(calls[c].req.table_name)]
                debits == SumOf(rows, "debit")
                credits == SumOf(rows, "credit")
                resp == calls[c].outcome.value
            IN  /\ resp.debit_total = debits
                /\ resp.credit_total = credits
                /\ resp.is_balanced <=> Abs(debits - credits) < 100
                /\ Abs(debits - credits) = 100 => ~resp.is_balanced
                /\ Abs(debits - credits) = 99 => resp.is_balanced
                /\ rows = {} => /\ resp.is_balanced
                               /\ resp.debit_total = 0
                               /\ resp.credit_total = 0

C3_Witness ==
    \E c \in Calls :
        /\ Returned(c, "totalMatchTool")
        /\ calls[c].outcome.value.debit_total
               - calls[c].outcome.value.credit_total = 100
        /\ ~calls[c].outcome.value.is_balanced

(* C4: for a valid period and column and any table content, totalTool      *)
(* completes without error (the store answering) and its response echoes   *)
(* the period and the column and carries the column's sum, at least 0.     *)
C4_TotalCompletes ==
    \A c \in Calls :
        (Done(c, "totalTool") /\ ~StoreFailed(c)) =>
            /\ calls[c].outcome.status = "ok"
            /\ calls[c].outcome.value.table_name = calls[c].req.table_name
            /\ calls[c].outcome.value.column = calls[c].req.column
            /\ calls[c].outcome.value.total
                   = SumOf(store[PeriodTable(calls[c].req.table_name)],
                           calls[c].req.column)
            /\ calls[c].outcome.value.total >= 0

InvalidArguments(req) ==
    \/ /\ req.tool = "totalTool"
       /\ req.column \notin {"debit", "credit", "balance"}
    \/ /\ req.tool \in {"totalTool", "accountNameTool", "glAccountTool",
                        "totalMatchTool"}
       /\ req.table_name \notin {"current_year", "previous_year"}

C6_SessionScoped ==
    /\ \A c \in Calls :
           calls[c].pc /= "idle" =>
               /\ calls[c].acquired = 1
               /\ calls[c].sid \in 1..Len(sessions)
               /\ calls[c].pc = "done" => sessions[calls[c].sid] = "closed"
    /\ \A c, d \in Calls :
           (c /= d /\ calls[c].pc /= "idle" /\ calls[d].pc /= "idle") =>
               calls[c].sid /= calls[d].sid
    /\ Len(sessions) = Cardinality({c \in Calls : calls[c].pc /= "idle"})
    /\ (\A c \in Calls : calls[c].pc \in {"idle", "done"}) =>
           \A i \in 1..Len(sessions) : sessions[i] = "closed"

(* Two invocations that overlapped and have both ended, one in a response  *)
(* and one in an error raised inside the block.                            *)
C6_Witness ==
    \E c, d \in Calls :
        /\ calls[c].pc = "done" /\ calls[c].outcome.status = "ok"
        /\ calls[d].pc = "done" /\ calls[d].outcome.status = "error"
        /\ calls[c].sid = 2 /\ calls[d].sid = 1
        /\ \A i \in 1..Len(sessions) : sessions[i] = "closed"

(* C7: variance_count is the number of computed records with               *)
(* exceeds_threshold = true and the length of the returned list,           *)
(* total_accounts is the number of distinct names of the two periods       *)
(* however many records there are, threshold_used is the threshold.        *)
C7_Counts ==
    \A c \in Calls :
        Returned(c, "varianceAnalysisTool") =>
            LET resp == calls[c].outcome.value
                results == calls[c].local.variance_results
            IN  /\ resp.variance_count
                       = Cardinality({i \in DOMAIN results :
                                          results[i].exceeds_threshold})
                /\ resp.variance_count = Len(resp.variances_exceeding_threshold)
                /\ resp.total_accounts = Cardinality(StoreNames)
                /\ resp.threshold_used = calls[c].req.threshold

C7_Witness ==
    \E c \in Calls :
        /\ Returned(c, "varianceAnalysisTool")
        /\ calls[c].outcome.value.total_accounts = 3
        /\ Len(calls[c].local.variance_results) = 2
        /\ calls[c].outcome.value.variance_count = 1

BalancesOf(rows, name) == {r.balance : r \in {x \in rows : x.account_name = name}}

ExampleSnapshots ==
    /\ {<<r.account_name, r.balance>> : r \in store[TrailBalanceCurrentYear]}
           = {<<"A", 100>>, <<"B", 200>>}
    /\ {<<r.account_name, r.balance>> : r \in store[TrailBalancePreviousYear]}
           = {<<"A", 100>>, <<"B", 150>>, <<"C", 80>>}

C9_StoreUnchanged == [][store' = store]_vars

C9_Witness ==
    \E c, d \in Calls :
        /\ calls[c].pc = "done" /\ calls[c].outcome.status = "ok"
        /\ calls[c].queries = 2
        /\ calls[d].pc = "done" /\ calls[d].outcome.status = "error"
        /\ calls[d].queries = 1
        /\ store[TrailBalanceCurrentYear] /= {}

(* C10: a name of the union has a computed variance record if and only if  *)
(* its current balance differs from its previous balance.                  *)
C10_RecordIffChanged ==
    \A c \in Calls :
        Returned(c, "varianceAnalysisTool") =>
            \A n \in StoreNames :
                (RecordsOf(calls[c].local.variance_results, n) /= {})
                    <=> (BalanceIn(calls[c].local.current_accounts, n)
                             /= BalanceIn(calls[c].local.previous_accounts, n))
====
